---- MODULE Spec2Model ----
(***************************************************************************)
(* State-machine model of the signalling server (src/server.js): the       *)
(* process-wide peer counter and lobby directory, the Lobby and User       *)
(* objects, the message handlers of handleMessage, the connection and      *)
(* close handlers, the callbacks deferred with setImmediate / setTimeout / *)
(* setInterval, and the death of the process on an uncaught exception.     *)
(***************************************************************************)
EXTENDS Integers, Sequences, FiniteSets, TLC

\* ------------------------------------------------------------------------
\* Bounds of the model
\* ------------------------------------------------------------------------

\* number of transports that ever connect (one more than the connection cap)
NSockets == 3
\* number of Lobby objects ever constructed
MaxLobbies == 2
\* number of callbacks waiting in the setImmediate queue
MaxImmediates == 2
\* model-scale value of the connection cap (server.js sets 4096)
MAX_CONNS == 2

Sockets == 1..NSockets

\* ------------------------------------------------------------------------
\* Protocol numbers, lobby types and close codes
\* ------------------------------------------------------------------------

PROTO == [ID |-> 0, HOST |-> 1, JOIN |-> 2, QUEUE |-> 3, VIEW |-> 4, ADD |-> 5,
          KICK |-> 6, OFFER |-> 7, ANSWER |-> 8, CANDIDATE |-> 9, READY |-> 10,
          START |-> 11, ERR |-> 12]

LOBBY_TYPE == [PRIVATE |-> 0, PUBLIC |-> 1, QUEUE |-> 2]

START_GAME == 1000
TOO_MANY_PEERS == 4029
BAD_PROTO == 4005
BAD_MESSAGE == 4022
LOBBY_NOT_FOUND == 4004
BAD_VIEW == 4000
BAD_HOST == 4006
BAD_JOIN == 4001
BAD_QUEUE == 4010
IDLE_SOCKET_CONN == 4008
UNKOWN_PEER == 4003

\* ------------------------------------------------------------------------
\* JavaScript values
\* ------------------------------------------------------------------------

\* null, for string-valued fields; the empty string is the falsy string input
JsNull == "<null>"
\* x || null for a string x
OrNull(s) == IF s = "" THEN JsNull ELSE s

\* an optional JSON value: absent, a number or a boolean
Absent == [k |-> "none", v |-> 0, b |-> FALSE]
Num(n) == [k |-> "num", v |-> n, b |-> FALSE]
Bool(x) == [k |-> "bool", v |-> 0, b |-> x]
Truthy(x) == \/ x.k = "num" /\ x.v # 0
             \/ x.k = "bool" /\ x.b

Abs(n) == IF n < 0 THEN -n ELSE n

\* ------------------------------------------------------------------------
\* bb26 words: a word is a sequence of letters 1..26 (A..Z)
\* ------------------------------------------------------------------------

RECURSIVE toDecimal(_)
toDecimal(w) ==
    IF w = <<>> THEN 0 ELSE 26 * toDecimal(SubSeq(w, 1, Len(w) - 1)) + w[Len(w)]

RECURSIVE toBb26(_)
toBb26(n) ==
    IF n <= 0 THEN <<>> ELSE toBb26((n - 1) \div 26) \o <<((n - 1) % 26) + 1>>

AAAAAA == <<1, 1, 1, 1, 1, 1>>
AAAAAAA == <<1, 1, 1, 1, 1, 1, 1>>

\* generateLobbyCode, with u = floor(Math.random() * (toDecimal('AAAAAAA') -
\* toDecimal('AAAAAA'))): floor(x - k) = floor(x) - k for an integer k
generateLobbyCode(u) == toBb26(Abs(u - toDecimal(AAAAAA)))

\* the draws u the model takes: randNum = -1 and randNum = toDecimal('AAAAAA')
LobbyDraws == {toDecimal(AAAAAA) - 1, 2 * toDecimal(AAAAAA)}

\* User.id, with v = floor(Math.random() * (2147483647 - 2))
mintPeerId(v) == v - 2

\* the draws v the model takes: ids 1, 7 and 8
PeerDraws == {3, 9, 10}
\* the draw of a population whose transports all get the id 7
SameDraw == {9}

\* ------------------------------------------------------------------------
\* Inputs of the client messages
\* ------------------------------------------------------------------------

\* lobby codes a JOIN or VIEW names: none (''), 'A', 'B' and 'AAAAAA'
CodeInputs == {<<>>, <<1>>, <<2>>, AAAAAA}
\* ids a KICK or READY names (0 is falsy, like an absent id) and relay targets
IdInputs == {0, 1, 7, 9}

\* The populations of clients the model runs the server against. Each fixes how
\* many transports connect and what Math.random() gives each of them, how many
\* lobbies they create, what their HOST and QUEUE requests carry, which
\* protocol numbers each of them sends and which timers elapse during the run, so that
\* the runs cover each input's values without taking the product of all of
\* them.
Population(sockets, ids, nlobbies, pubs, meshes, sizes, draws, queues, calls, timers) ==
    [sockets |-> sockets, ids |-> ids, lobbies |-> nlobbies, pubs |-> pubs,
     meshes |-> meshes, sizes |-> sizes, draws |-> draws, queues |-> queues,
     calls |-> calls, timers |-> timers]

OneDraw == {toDecimal(AAAAAA) - 1}

\* a frame that does not parse (-1), the server-only calls and a call past ERR
UnknownCalls == {-1, PROTO.ADD, PROTO.ERR, PROTO.ERR + 1}

AllCalls == 0..PROTO.START \cup UnknownCalls

Populations ==
    { \* one transport more than the cap admits; the idle timers elapse
      Population(NSockets, [p \in Sockets |-> SameDraw], 0, {TRUE}, {Absent}, {Num(2)},
                 OneDraw, {}, [p \in Sockets |-> {PROTO.ID} \cup UnknownCalls],
                 {"early", "long"}),
      \* one lobby of any visibility, mesh flag and size; queues; lobby timers
      Population(NSockets - 1, [p \in Sockets |-> IF p = 1 THEN SameDraw ELSE PeerDraws],
                 MaxLobbies - 1, BOOLEAN, {Absent, Bool(FALSE), Bool(TRUE)},
                 {Num(0), Num(2)}, OneDraw, {Num(1), Num(2)}, [p \in Sockets |-> AllCalls],
                 {"reap", "queue"}),
      \* several lobbies, with equal and with different codes: each transport
      \* hosts one, and the first also seals its own and looks for others
      Population(NSockets - 1, [p \in Sockets |-> SameDraw], MaxLobbies, {TRUE}, {Absent},
                 {Num(2)}, LobbyDraws, {},
                 [p \in Sockets |-> IF p = 1
                     THEN {PROTO.ID, PROTO.HOST, PROTO.JOIN, PROTO.VIEW, PROTO.KICK,
                           PROTO.READY}
                     ELSE {PROTO.ID, PROTO.HOST}], {"reap"}),
      \* matchmaking: every transport asks for a queue lobby of the same kind,
      \* and one more such lobby than there are admitted transports can be made
      Population(NSockets, [p \in Sockets |-> SameDraw], MAX_CONNS + 1, {TRUE}, {Absent},
                 {Num(2)}, OneDraw, {Num(2)},
                 [p \in Sockets |-> {PROTO.ID, PROTO.QUEUE}], {}) }

\* the HOST requests of a population: the well-formed ones, one without a game
\* and one without maxPeers
HostRequest(game, isPublic, isMesh, maxPeers, tags) ==
    [game |-> game, isPublic |-> isPublic, isMesh |-> isMesh, maxPeers |-> maxPeers,
     tags |-> tags]

HostRequests(c) ==
    {HostRequest("chess", pub, mesh, mp, "") : pub \in c.pubs, mesh \in c.meshes,
                                               mp \in c.sizes}
    \cup {HostRequest("", TRUE, Absent, Num(2), ""),
          HostRequest("chess", TRUE, Absent, Absent, "")}

\* the JOIN requests: every code with a game, and one without a game
JoinRequest(game, code) == [game |-> game, lobbyCode |-> code]
JoinRequests == {JoinRequest("chess", c) : c \in CodeInputs} \cup {JoinRequest("", <<1>>)}

\* the QUEUE requests of a population, one without a game, one without maxPeers
QueueRequest(game, maxPeers, tags, isMesh) ==
    [game |-> game, maxPeers |-> maxPeers, tags |-> tags, isMesh |-> isMesh]

QueueRequests(c) ==
    {QueueRequest("chess", mp, "", mesh) : mp \in c.queues, mesh \in c.meshes}
    \cup (IF c.queues = {} THEN {}
          ELSE {QueueRequest("", Num(2), "", Absent),
                QueueRequest("chess", Absent, "", Absent)})

\* the VIEW requests: a listing, a listing for a game nobody hosts, a lookup
\* by code, and one without a game
ViewRequests == {JoinRequest("chess", <<>>), JoinRequest("go", <<>>),
                 JoinRequest("chess", <<1>>), JoinRequest("", <<>>)}

\* the OFFER, ANSWER and CANDIDATE requests: a target and the payload string
\* (offer, answer or sdp), once as an empty string
RelayRequests == {[toId |-> Num(id), payload |-> "sdp"] : id \in IdInputs}
                 \cup {[toId |-> Absent, payload |-> "sdp"],
                       [toId |-> Num(1), payload |-> ""]}

\* ------------------------------------------------------------------------
\* State
\* ------------------------------------------------------------------------

VARIABLES
    CUR_PEER_CNT,   \* connection counter
    LOBBIES_LIST,   \* the directory: sequence of Lobby references
    lobbies,        \* the Lobby objects constructed so far, by reference
    peers,          \* the User object and socket of each transport
    immediates,     \* callbacks queued with setImmediate, in order
    timeouts,       \* callbacks scheduled with setTimeout by READY and START
    out,            \* the messages put on the wire by the last step
    ev,             \* the event handled by the last step
    crashed,        \* an exception escaped a callback: the process is gone
    clients         \* the population of clients of this run (never changes)

vars == <<CUR_PEER_CNT, LOBBIES_LIST, lobbies, peers, immediates, timeouts, out, ev,
          crashed, clients>>

\* no lobby (peer.lobby == null)
NoLobby == 0

\* a transport that has not connected yet: no User object exists
NoPeer == [sock |-> "none", closeCode |-> 0, id |-> 0, lobbyId |-> 0, isHost |-> FALSE,
           lobby |-> NoLobby, game |-> JsNull, earlyTimeoutId |-> FALSE,
           longTimeoutId |-> FALSE]

\* new User(socket)
User(v) == [sock |-> "open", closeCode |-> 0, id |-> mintPeerId(v),
            lobbyId |-> mintPeerId(v), isHost |-> FALSE, lobby |-> NoLobby,
            game |-> JsNull, earlyTimeoutId |-> TRUE, longTimeoutId |-> TRUE]

\* new Lobby(game, lobbyType, maxPeers, isMesh, tags)
Lobby(u, game, lobbyType, maxPeers, isMesh, tags) ==
    [lobbyCode |-> generateLobbyCode(u), lobbyType |-> lobbyType, maxPeers |-> maxPeers,
     isMesh |-> isMesh, peerList |-> <<>>, game |-> game, tags |-> tags,
     isActive |-> TRUE, queueIntervalId |-> (lobbyType = LOBBY_TYPE.QUEUE),
     lobbyTimeoutId |-> TRUE]

Msg(to, call, data) == [to |-> to, call |-> call, data |-> data]
NoData == [none |-> TRUE]
ErrData(code) == [code |-> code]

\* socket.send: a socket that is not open drops the frame
Wire(ps, msgs) == SelectSeq(msgs, LAMBDA m : m.to # 0 /\ ps[m.to].sock = "open")

\* socket.close(code): starts the closing handshake of an open socket
SocketClose(pr, code) ==
    IF pr.sock = "open" THEN [pr EXCEPT !.sock = "closing", !.closeCode = code] ELSE pr

Event(op, p, arg, res) == [op |-> op, p |-> p, arg |-> arg, res |-> res]

\* no callback is running: the event loop waits for its next event
Quiet == Event("idle", 0, NoData, "ok")

Init ==
    /\ CUR_PEER_CNT = 0
    /\ LOBBIES_LIST = <<>>
    /\ lobbies = <<>>
    /\ peers = [p \in Sockets |-> NoPeer]
    /\ immediates = <<>>
    /\ timeouts = {}
    /\ out = <<>>
    /\ ev = Quiet
    /\ crashed = FALSE
    /\ clients \in Populations

\* the process is alive and the event loop is free to run the next callback
Idle == ~crashed /\ ev = Quiet

\* p's socket is still to deliver its 'close' event
Alive(p) == Idle /\ peers[p].sock \in {"open", "closing"}

\* the process is alive and p's socket delivers a frame: the model takes no
\* frame from a socket the server has already asked to close, and none while a
\* callback of READY (1 s) or START (250 ms) is still to run
CanReceive(p) == Idle /\ peers[p].sock = "open" /\ timeouts = {}

\* the client behind p sends frames with the protocol number call
Sends(p, call) == call \in clients.calls[p]

\* the client answers the server's ID frame before it sends any other request
\* (websocket_connected in the client addon)
Handshaken(p) == peers[p].game # JsNull

\* an uncaught exception in a callback ends the process: its memory (counter,
\* directory, objects, queued callbacks) is gone and every socket is closed
Crash(op, p, arg) ==
    /\ crashed' = TRUE
    /\ CUR_PEER_CNT' = 0
    /\ LOBBIES_LIST' = <<>>
    /\ lobbies' = <<>>
    /\ peers' = [q \in Sockets |-> [NoPeer EXCEPT !.sock = "closed"]]
    /\ immediates' = <<>>
    /\ timeouts' = {}
    /\ out' = <<>>
    /\ ev' = Event(op, p, arg, "throws")
    /\ UNCHANGED clients

\* ------------------------------------------------------------------------
\* SERVER.on('connection')
\* ------------------------------------------------------------------------

Connection(p, v) ==
    /\ Idle
    /\ p <= clients.sockets
    /\ peers[p].sock = "none"
    /\ v \in clients.ids[p]
    /\ \A q \in 1..(p - 1) : peers[q].sock # "none"
    /\ LET tooMany == CUR_PEER_CNT >= MAX_CONNS
           user == User(v)
       IN /\ CUR_PEER_CNT' = CUR_PEER_CNT + 1
          /\ peers' = [peers EXCEPT ![p] =
                          IF tooMany THEN SocketClose(user, TOO_MANY_PEERS) ELSE user]
          /\ out' = IF tooMany
                    THEN <<Msg(p, PROTO.ERR, ErrData(TOO_MANY_PEERS))>>
                    ELSE <<Msg(p, PROTO.ID, NoData)>>
          /\ ev' = Event("connection", p, NoData, IF tooMany THEN "rejected" ELSE "ok")
    /\ UNCHANGED <<LOBBIES_LIST, lobbies, immediates, timeouts, crashed, clients>>

\* ------------------------------------------------------------------------
\* Array helpers
\* ------------------------------------------------------------------------

\* Array.prototype.find on a sequence: the index of the first match, 0 if none
Find(s, Test(_)) ==
    LET hits == {i \in 1..Len(s) : Test(s[i])}
    IN IF hits = {} THEN 0 ELSE CHOOSE i \in hits : \A j \in hits : i <= j

\* the elements of a sequence, mapped one by one
MapSeq(s, F(_)) == [i \in 1..Len(s) |-> F(s[i])]

\* l => { l.lobbyCode === code }: an arrow function with a block body and no
\* return yields undefined, so the filter keeps nothing
BlockArrowResult(l, code) == FALSE
FilterLobbiesBlock(list, code) ==
    SelectSeq(list, LAMBDA l : BlockArrowResult(l, code))

\* p != peer.lobbyId with p a User object and lobbyId a number: the object
\* converts to NaN, so the comparison is true for every element
ObjectNotEqualNumber(q, n) == TRUE
FilterPeersLoose(list, n) ==
    SelectSeq(list, LAMBDA q : ObjectNotEqualNumber(q, n))

\* Lobby.kickPeer: the peer list without the peers whose lobbyId is lobbyId
kickPeer(ps, peerList, lobbyId) ==
    SelectSeq(peerList, LAMBDA q : ps[q].lobbyId # lobbyId)

\* the callbacks a handler queues with setImmediate
KickTask(to, about, alive) == [kind |-> "KICK", to |-> to, about |-> about, alive |-> alive]
AddTask(to, about) == [kind |-> "ADD", to |-> to, about |-> about, alive |-> TRUE]

\* ------------------------------------------------------------------------
\* socket.on('close')
\* ------------------------------------------------------------------------

\* the lobby teardown both host branches share: detach the members, empty the
\* list, rewrite the directory
Detach(ps, members) == [q \in Sockets |->
    IF \E i \in 1..Len(members) : members[i] = q
    THEN [ps[q] EXCEPT !.lobby = NoLobby] ELSE ps[q]]

OnClose(p) ==
    /\ Alive(p)
    /\ LET peer == peers[p]
           L == peer.lobby
           closed == [peers EXCEPT ![p].sock = "closed", ![p].longTimeoutId = FALSE]
           hostBranch == L # NoLobby /\ peer.isHost
           activeL == L # NoLobby /\ lobbies[L].isActive
           members == IF L = NoLobby THEN <<>> ELSE lobbies[L].peerList
       IN /\ CUR_PEER_CNT' = CUR_PEER_CNT - 1
          /\ IF activeL /\ hostBranch
             THEN /\ peers' = [Detach(closed, members) EXCEPT ![p].lobby = NoLobby]
                  /\ lobbies' = [lobbies EXCEPT ![L].peerList = <<>>,
                                                ![L].queueIntervalId = FALSE]
                  /\ LOBBIES_LIST' = FilterLobbiesBlock(LOBBIES_LIST, lobbies[L].lobbyCode)
                  /\ immediates' = immediates \o
                                   MapSeq(members, LAMBDA q : KickTask(q, q, FALSE))
             ELSE IF activeL
             THEN /\ peers' = [closed EXCEPT ![p].lobby = NoLobby]
                  /\ lobbies' = [lobbies EXCEPT ![L].peerList =
                                     FilterPeersLoose(members, peer.lobbyId)]
                  /\ LOBBIES_LIST' = LOBBIES_LIST
                  /\ immediates' = immediates \o
                                   MapSeq(members, LAMBDA q : KickTask(q, p, TRUE))
             ELSE IF hostBranch
             THEN /\ peers' = [Detach(closed, members) EXCEPT ![p].lobby = NoLobby]
                  /\ lobbies' = [lobbies EXCEPT ![L].peerList = <<>>,
                                                ![L].queueIntervalId = FALSE]
                  /\ LOBBIES_LIST' = FilterLobbiesBlock(LOBBIES_LIST, lobbies[L].lobbyCode)
                  /\ immediates' = immediates
             ELSE /\ peers' = closed
                  /\ UNCHANGED <<lobbies, LOBBIES_LIST, immediates>>
          /\ Len(immediates') <= MaxImmediates
          /\ out' = <<>>
          /\ ev' = Event("close", p, NoData, "ok")
    /\ UNCHANGED <<timeouts, crashed, clients>>

\* ------------------------------------------------------------------------
\* handleMessage
\* ------------------------------------------------------------------------

\* what a handler that returns normally leaves behind: the frames it sent and
\* the record of the event
Done(op, p, arg, res, msgs) ==
    /\ out' = Wire(peers, msgs)
    /\ ev' = Event(op, p, arg, res)
    /\ UNCHANGED <<crashed, clients>>

\* the protocols whose branch reads a field of data before anything else
ReadsData == {PROTO.ID, PROTO.HOST, PROTO.JOIN, PROTO.QUEUE, PROTO.VIEW, PROTO.KICK,
              PROTO.OFFER, PROTO.ANSWER, PROTO.CANDIDATE}

\* a frame without data (json['data'] || null is null): data['...'] throws
HandleNullData(p, call) ==
    /\ CanReceive(p)
    /\ Handshaken(p)
    /\ call \in ReadsData
    /\ Sends(p, call)
    /\ Crash("nulldata", p, [call |-> call])

\* --- ID ---

HandleID(p, data) ==
    /\ CanReceive(p)
    /\ LET arg == data
           game == OrNull(data.game)
       IN /\ peers' = [peers EXCEPT ![p] =
                          IF game = JsNull THEN SocketClose(@, UNKOWN_PEER)
                          ELSE [@ EXCEPT !.game = game]]
          /\ Done("ID", p, arg, IF game = JsNull THEN "closed" ELSE "ok", <<>>)
    /\ UNCHANGED <<CUR_PEER_CNT, LOBBIES_LIST, lobbies, immediates, timeouts>>

\* --- HOST ---

\* typeof x === 'number' ? Math.floor(x) : -1
NumberOrMinusOne(x) == IF x.k = "num" THEN x.v ELSE -1

\* data['isMesh'] || true
IsMeshOrTrue(x) == IF Truthy(x) THEN x.b ELSE TRUE

\* what HOST and QUEUE require of their fields
FieldsAccepted(game, maxPeers) == ~(game = JsNull \/ maxPeers = -1)

\* the HOST branch, run for a frame that the event records as op with arg
Hosting(op, p, arg, data, u) ==
    /\ CanReceive(p)
    /\ Handshaken(p)
    /\ Sends(p, PROTO.HOST)
    /\ LET game == OrNull(data.game)
           lobbyType == IF data.isPublic THEN LOBBY_TYPE.PUBLIC ELSE LOBBY_TYPE.PRIVATE
           isMesh == IsMeshOrTrue(data.isMesh)
           maxPeers == NumberOrMinusOne(data.maxPeers)
           tags == OrNull(data.tags)
           L == Len(lobbies) + 1
           lobby == [Lobby(u, game, lobbyType, maxPeers, isMesh, tags)
                       EXCEPT !.peerList = <<p>>]
       IN IF ~FieldsAccepted(game, maxPeers)
          THEN /\ Done(op, p, arg, "bad", <<Msg(p, PROTO.ERR, ErrData(BAD_HOST))>>)
               /\ UNCHANGED <<peers, lobbies, LOBBIES_LIST>>
          ELSE /\ Len(lobbies) < clients.lobbies
               /\ peers' = [peers EXCEPT ![p].isHost = TRUE, ![p].lobbyId = 1,
                                         ![p].lobby = L]
               /\ lobbies' = Append(lobbies, lobby)
               /\ LOBBIES_LIST' = Append(LOBBIES_LIST, L)
               /\ Done(op, p, arg, "ok", <<Msg(p, PROTO.HOST,
                       [id |-> 1, lobbyCode |-> lobby.lobbyCode, isMesh |-> isMesh])>>)
    /\ UNCHANGED <<CUR_PEER_CNT, immediates, timeouts>>

HandleHOST(p, data, u) == Hosting("HOST", p, data, data, u)

\* --- JOIN ---

\* a lookup that forgets the seal: any lobby with the code that is not full
JoinableWhenSealed(l, lobbyCode) ==
    /\ l.lobbyCode = lobbyCode
    /\ Len(l.peerList) < l.maxPeers

\* the lobby JOIN may enter: the code matches, the lobby is active and not full
Joinable(l, lobbyCode) ==
    /\ l.lobbyCode = lobbyCode
    /\ l.isActive
    /\ Len(l.peerList) < l.maxPeers

\* LOBBIES_LIST.find(...) || null, as a Lobby reference
FindJoinable(lobbyCode) ==
    LET i == Find(LOBBIES_LIST, LAMBDA L : Joinable(lobbies[L], lobbyCode))
    IN IF i = 0 THEN NoLobby ELSE LOBBIES_LIST[i]

\* the members a new member exchanges ADD with: those with another lobbyId
OtherMembers(ps, list, p) == SelectSeq(list, LAMBDA q : ps[q].lobbyId # ps[p].lobbyId)

HandleJOIN(p, data) ==
    /\ CanReceive(p)
    /\ Handshaken(p)
    /\ Sends(p, PROTO.JOIN)
    /\ LET arg == data
           code == data.lobbyCode
           game == OrNull(data.game)
           L == FindJoinable(code)
           joined == [peers EXCEPT ![p].isHost = FALSE, ![p].lobbyId = peers[p].id,
                                   ![p].lobby = L]
           list == Append(lobbies[L].peerList, p)
       IN IF game = JsNull \/ code = <<>>
          THEN /\ Done("JOIN", p, arg, "bad", <<Msg(p, PROTO.ERR, ErrData(BAD_JOIN))>>)
               /\ UNCHANGED <<peers, lobbies, immediates>>
          ELSE IF L = NoLobby
          THEN /\ Done("JOIN", p, arg, "notfound",
                       <<Msg(p, PROTO.ERR, ErrData(LOBBY_NOT_FOUND))>>)
               /\ UNCHANGED <<peers, lobbies, immediates>>
          ELSE /\ peers' = joined
               /\ lobbies' = [lobbies EXCEPT ![L].peerList = list]
               /\ immediates' = immediates \o
                      MapSeq(OtherMembers(joined, list, p), LAMBDA q : AddTask(q, p))
               /\ Len(immediates') <= MaxImmediates
               /\ Done("JOIN", p, arg, "ok", <<Msg(p, PROTO.JOIN,
                       [id |-> joined[p].lobbyId, isMesh |-> lobbies[L].isMesh,
                        lobbyCode |-> lobbies[L].lobbyCode])>>)
    /\ UNCHANGED <<CUR_PEER_CNT, LOBBIES_LIST, timeouts>>

\* --- QUEUE ---

\* the queue lobbies of the directory a QUEUE request matches
QueueMatch(l, game, maxPeers, tags) ==
    /\ l.game = game
    /\ l.lobbyType = LOBBY_TYPE.QUEUE
    /\ l.isActive
    /\ l.maxPeers = maxPeers
    /\ l.tags = tags
    /\ Len(l.peerList) < l.maxPeers

\* the guard of the branch that joins a queue lobby that was found
QueueFound(lobbyList) == Len(lobbyList) > 1

HandleQUEUE(p, data, u) ==
    /\ CanReceive(p)
    /\ Handshaken(p)
    /\ Sends(p, PROTO.QUEUE)
    /\ LET arg == data
           game == OrNull(data.game)
           maxPeers == NumberOrMinusOne(data.maxPeers)
           tags == OrNull(data.tags)
           isMesh == IsMeshOrTrue(data.isMesh)
           lobbyList == SelectSeq(LOBBIES_LIST,
                            LAMBDA L : QueueMatch(lobbies[L], game, maxPeers, tags))
           found == lobbyList[1]
           joined == [peers EXCEPT ![p].lobbyId = peers[p].id, ![p].isHost = FALSE,
                                   ![p].lobby = found]
           lobby == [Lobby(u, game, LOBBY_TYPE.QUEUE, maxPeers, isMesh, tags)
                       EXCEPT !.peerList = <<p>>]
       IN IF ~FieldsAccepted(game, maxPeers)
          THEN /\ Done("QUEUE", p, arg, "bad", <<Msg(p, PROTO.ERR, ErrData(BAD_QUEUE))>>)
               /\ UNCHANGED <<peers, lobbies, immediates>>
          ELSE IF QueueFound(lobbyList)
          THEN /\ peers' = joined
               /\ immediates' = immediates \o
                      MapSeq(OtherMembers(joined, lobbies[found].peerList, p),
                             LAMBDA q : AddTask(q, p))
               /\ Len(immediates') <= MaxImmediates
               /\ Done("QUEUE", p, arg, "joined", <<Msg(p, PROTO.QUEUE,
                       [id |-> joined[p].lobbyId, isMesh |-> lobbies[found].isMesh,
                        lobbyCode |-> lobbies[found].lobbyCode, isHost |-> FALSE])>>)
               /\ UNCHANGED lobbies
          ELSE /\ Len(lobbies) < clients.lobbies
               /\ peers' = [peers EXCEPT ![p].lobbyId = 1, ![p].isHost = TRUE]
               /\ lobbies' = Append(lobbies, lobby)
               /\ Done("QUEUE", p, arg, "created", <<Msg(p, PROTO.QUEUE,
                       [id |-> 1, lobbyCode |-> lobby.lobbyCode, isMesh |-> isMesh,
                        isHost |-> TRUE])>>)
               /\ UNCHANGED immediates
    /\ UNCHANGED <<CUR_PEER_CNT, LOBBIES_LIST, timeouts>>

\* --- VIEW ---

\* a listing that forgets the kind: private lobbies are listed too
ListedAnyKind(l, game) ==
    /\ game = l.game
    /\ l.isActive
    /\ Len(l.peerList) < l.maxPeers

\* the lobbies VIEW lists when no lobbyCode is given
Listed(l, game) ==
    /\ game = l.game
    /\ l.isActive
    /\ Len(l.peerList) < l.maxPeers
    /\ l.lobbyType = LOBBY_TYPE.PUBLIC

LobbyDetails(l) ==
    [lobbyCode |-> l.lobbyCode, peerCount |-> Len(l.peerList), isActive |-> l.isActive,
     lobbyType |-> l.lobbyType, maxPeers |-> l.maxPeers, tags |-> l.tags,
     isMesh |-> l.isMesh]

ViewList(game, lobbyCode) ==
    MapSeq(IF lobbyCode # <<>>
           THEN SelectSeq(LOBBIES_LIST, LAMBDA L : lobbies[L].lobbyCode = lobbyCode)
           ELSE SelectSeq(LOBBIES_LIST, LAMBDA L : Listed(lobbies[L], game)),
           LAMBDA L : LobbyDetails(lobbies[L]))

HandleVIEW(p, data) ==
    /\ CanReceive(p)
    /\ Handshaken(p)
    /\ Sends(p, PROTO.VIEW)
    /\ LET game == OrNull(data.game)
           reply == Msg(p, PROTO.VIEW, [lobbyList |-> ViewList(game, data.lobbyCode)])
       IN Done("VIEW", p, data, IF game = JsNull THEN "bad" ELSE "ok",
               IF game = JsNull
               THEN <<Msg(p, PROTO.ERR, ErrData(BAD_VIEW)), reply>>
               ELSE <<reply>>)
    /\ UNCHANGED <<CUR_PEER_CNT, LOBBIES_LIST, lobbies, peers, immediates, timeouts>>

\* --- KICK ---

HandleKICK(p, data) ==
    /\ CanReceive(p)
    /\ Handshaken(p)
    /\ Sends(p, PROTO.KICK)
    /\ LET peer == peers[p]
           id == data.id
           L == peer.lobby
           rest == kickPeer(peers, lobbies[L].peerList, peer.lobbyId)
       IN IF id = 0 \/ L = NoLobby
          THEN /\ Done("KICK", p, data, "bad", <<Msg(p, PROTO.ERR, ErrData(BAD_MESSAGE))>>)
               /\ UNCHANGED <<CUR_PEER_CNT, LOBBIES_LIST, lobbies, peers, immediates,
                              timeouts>>
          ELSE IF peer.lobbyId = id /\ peer.isHost
          THEN \* log.info reads `lobby` before its let: ReferenceError
               Crash("KICK", p, data)
          ELSE IF peer.isHost /\ peer.lobbyId # id
          THEN \* peer.lobby.find is not a function: TypeError
               Crash("KICK", p, data)
          ELSE IF peer.lobbyId = id
          THEN /\ lobbies' = [lobbies EXCEPT ![L].peerList =
                                 FilterPeersLoose(rest, peer.lobbyId)]
               /\ peers' = [peers EXCEPT ![p].lobby = NoLobby]
               /\ immediates' = immediates \o MapSeq(rest, LAMBDA q : KickTask(q, p, TRUE))
               /\ Len(immediates') <= MaxImmediates
               /\ Done("KICK", p, data, "left", <<>>)
               /\ UNCHANGED <<CUR_PEER_CNT, LOBBIES_LIST, timeouts>>
          ELSE /\ Done("KICK", p, data, "ignored", <<>>)
               /\ UNCHANGED <<CUR_PEER_CNT, LOBBIES_LIST, lobbies, peers, immediates,
                              timeouts>>

\* --- OFFER, ANSWER, CANDIDATE ---

\* peerList.find((p) => p.lobbyId == id): the member found, 0 for undefined
FindMember(ps, peerList, id) ==
    LET i == Find(peerList, LAMBDA q : ps[q].lobbyId = id)
    IN IF i = 0 THEN 0 ELSE peerList[i]

\* peerList.find((p) => p.isHost): the member found, 0 for undefined
FindHost(ps, peerList) ==
    LET i == Find(peerList, LAMBDA q : ps[q].isHost)
    IN IF i = 0 THEN 0 ELSE peerList[i]

HandleRelay(p, call, data) ==
    /\ CanReceive(p)
    /\ Handshaken(p)
    /\ call \in {PROTO.OFFER, PROTO.ANSWER, PROTO.CANDIDATE}
    /\ Sends(p, call)
    /\ LET peer == peers[p]
           arg == [call |-> call, data |-> data]
           toPeer == FindMember(peers, lobbies[peer.lobby].peerList, data.toId.v)
       IN IF data.toId.k # "num"
          THEN /\ Done("RELAY", p, arg, "bad", <<Msg(p, PROTO.ERR, ErrData(BAD_MESSAGE))>>)
               /\ UNCHANGED <<CUR_PEER_CNT, LOBBIES_LIST, lobbies, peers, immediates,
                              timeouts>>
          ELSE IF peer.lobby = NoLobby
          THEN Crash("RELAY", p, arg)
          ELSE IF toPeer = 0
          THEN Crash("RELAY", p, arg)
          ELSE /\ Done("RELAY", p, arg, "ok",
                       <<Msg(toPeer, call, [payload |-> OrNull(data.payload),
                                            fromId |-> peer.lobbyId])>>)
               /\ UNCHANGED <<CUR_PEER_CNT, LOBBIES_LIST, lobbies, peers, immediates,
                              timeouts>>

\* --- READY ---

\* the callbacks READY and START schedule with setTimeout
ReadyTask(to, host) == [kind |-> "READY", to |-> to, host |-> host]
CloseTask(to) == [kind |-> "CLOSE", to |-> to, host |-> 0]

NonHosts(ps, peerList) == SelectSeq(peerList, LAMBDA q : ~ps[q].isHost)

SeqToSet(seq) == {seq[i] : i \in 1..Len(seq)}

HandleREADY(p, hasData, data) ==
    /\ CanReceive(p)
    /\ Handshaken(p)
    /\ Sends(p, PROTO.READY)
    /\ LET peer == peers[p]
           arg == [hasData |-> hasData, id |-> data.id]
           L == peer.lobby
           members == lobbies[L].peerList
           latePeer == FindMember(peers, members, data.id)
           host == FindHost(peers, members)
       IN IF L = NoLobby
          THEN Crash("READY", p, arg)
          ELSE IF peer.isHost
          THEN IF ~hasData
               THEN Crash("READY", p, arg)
               ELSE /\ lobbies' = [lobbies EXCEPT ![L].isActive = FALSE]
                    /\ timeouts' = timeouts \cup
                          (IF data.id = 0
                           THEN {ReadyTask(q, p) : q \in SeqToSet(NonHosts(peers, members))}
                           ELSE {ReadyTask(latePeer, p)})
                    /\ Done("READY", p, arg, "sealed", <<>>)
                    /\ UNCHANGED <<CUR_PEER_CNT, LOBBIES_LIST, peers, immediates>>
          ELSE IF host = 0
          THEN Crash("READY", p, arg)
          ELSE /\ Done("READY", p, arg, "forwarded",
                       <<Msg(host, PROTO.READY, [hasData |-> hasData, id |-> data.id])>>)
               /\ UNCHANGED <<CUR_PEER_CNT, LOBBIES_LIST, lobbies, peers, immediates,
                              timeouts>>

\* --- START ---

\* a START that anyone may send
StartFromAnyone(peer) == TRUE

\* the peers START is honoured from
StartHonoured(peer) == peer.isHost

HandleSTART(p) ==
    /\ CanReceive(p)
    /\ Handshaken(p)
    /\ Sends(p, PROTO.START)
    /\ LET peer == peers[p]
           L == peer.lobby
           nonHosts == NonHosts(peers, lobbies[L].peerList)
       IN IF ~StartHonoured(peer)
          THEN /\ Done("START", p, NoData, "ignored", <<>>)
               /\ UNCHANGED <<CUR_PEER_CNT, LOBBIES_LIST, lobbies, peers, immediates,
                              timeouts>>
          ELSE IF L = NoLobby
          THEN Crash("START", p, NoData)
          ELSE /\ lobbies' = [lobbies EXCEPT ![L].isActive = FALSE]
               /\ timeouts' = timeouts \cup {CloseTask(q) : q \in SeqToSet(nonHosts)}
                                       \cup {CloseTask(p)}
               /\ Done("START", p, NoData, "started",
                       MapSeq(nonHosts, LAMBDA q : Msg(q, PROTO.START, NoData))
                       \o <<Msg(p, PROTO.START, NoData)>>)
               /\ UNCHANGED <<CUR_PEER_CNT, LOBBIES_LIST, peers, immediates>>

\* --- any other protocol number, and frames that do not parse ---

\* Math.floor of a number written in tenths
Floor(tenths) == tenths \div 10

\* the protocol unwrapMessage reads from a frame whose call is a number
unwrapMessage(tenths) == Floor(tenths)

\* calls that are numbers but not integers, in tenths: 1.5 and 12.5
FractionCalls == {10 * PROTO.HOST + 5, 10 * PROTO.ERR + 5}

\* a frame whose call is not an integer: the branch of the floored call runs
HandleFractionCall(p, c, data, u) ==
    /\ Sends(p, -1)
    /\ LET protocol == unwrapMessage(c)
           arg == [call |-> c, data |-> data]
       IN IF protocol = PROTO.HOST
          THEN Hosting("FRACTION", p, arg, data, u)
          ELSE /\ CanReceive(p)
               /\ protocol \notin (ReadsData \cup {PROTO.READY, PROTO.START})
               /\ Done("FRACTION", p, arg, "bad",
                       <<Msg(p, PROTO.ERR, ErrData(BAD_PROTO))>>)
               /\ UNCHANGED <<CUR_PEER_CNT, LOBBIES_LIST, lobbies, peers, immediates,
                              timeouts>>

\* a frame that parses to null: json['call'] throws outside the try block
HandleNullFrame(p) ==
    /\ CanReceive(p)
    /\ Sends(p, -1)
    /\ Crash("NULLFRAME", p, NoData)

HandleUnknown(p, call) ==
    /\ CanReceive(p)
    /\ call \notin (ReadsData \cup {PROTO.READY, PROTO.START})
    /\ Sends(p, call)
    /\ Done("UNKNOWN", p, [call |-> call], "bad", <<Msg(p, PROTO.ERR, ErrData(BAD_PROTO))>>)
    /\ UNCHANGED <<CUR_PEER_CNT, LOBBIES_LIST, lobbies, peers, immediates, timeouts>>

\* ------------------------------------------------------------------------
\* Callbacks queued with setImmediate
\* ------------------------------------------------------------------------

RunImmediate ==
    /\ Idle
    /\ immediates # <<>>
    /\ LET t == Head(immediates)
       IN Done("immediate", t.to, t, "ok",
               IF t.kind = "ADD"
               THEN <<Msg(t.to, PROTO.ADD, [peerId |-> peers[t.about].lobbyId]),
                      Msg(t.about, PROTO.ADD, [peerId |-> peers[t.to].lobbyId])>>
               ELSE <<Msg(t.to, PROTO.KICK,
                          [id |-> peers[t.about].lobbyId, lobbyAlive |-> t.alive])>>)
    /\ immediates' = Tail(immediates)
    /\ UNCHANGED <<CUR_PEER_CNT, LOBBIES_LIST, lobbies, peers, timeouts>>

\* ------------------------------------------------------------------------
\* Callbacks scheduled with setTimeout and setInterval
\* ------------------------------------------------------------------------

\* the setTimeout callbacks of READY (a probe, after 1 s) and START (a close,
\* after 250 ms)
RunTimeout(t) ==
    /\ Idle
    /\ t \in timeouts
    /\ IF t.kind = "CLOSE"
       THEN /\ peers' = [peers EXCEPT ![t.to] = SocketClose(@, START_GAME)]
            /\ timeouts' = timeouts \ {t}
            /\ Done("timeout", t.to, t, "closed", <<>>)
            /\ UNCHANGED <<CUR_PEER_CNT, LOBBIES_LIST, lobbies, immediates>>
       ELSE IF t.to = 0 \/ peers[t.host].lobby = NoLobby
       THEN Crash("timeout", t.to, t)
       ELSE /\ timeouts' = timeouts \ {t}
            /\ Done("timeout", t.to, t, "probed", <<Msg(t.to, PROTO.READY,
                    [id |-> peers[t.to].lobbyId,
                     peerCount |-> Len(lobbies[peers[t.host].lobby].peerList) - 1])>>)
            /\ UNCHANGED <<CUR_PEER_CNT, LOBBIES_LIST, lobbies, peers, immediates>>

\* an early timer that closes every peer, identified or not
NoHandshakeOrNot(peer) == TRUE

\* the test of the early timer: the peer has not identified itself
NoHandshake(peer) == peer.game = JsNull

\* User.earlyTimeoutId, after 10 s
EarlyTimeout(p) ==
    /\ Idle
    /\ "early" \in clients.timers
    /\ peers[p].earlyTimeoutId
    /\ peers' = [peers EXCEPT ![p] =
                    [(IF NoHandshake(@) THEN SocketClose(@, IDLE_SOCKET_CONN) ELSE @)
                        EXCEPT !.earlyTimeoutId = FALSE]]
    /\ Done("early", p, NoData, IF NoHandshake(peers[p]) THEN "closed" ELSE "ok", <<>>)
    /\ UNCHANGED <<CUR_PEER_CNT, LOBBIES_LIST, lobbies, immediates, timeouts>>

\* User.longTimeoutId, after 30 min
LongTimeout(p) ==
    /\ Idle
    /\ "long" \in clients.timers
    /\ peers[p].longTimeoutId
    /\ peers' = [peers EXCEPT ![p] =
                    [SocketClose(@, IDLE_SOCKET_CONN) EXCEPT !.longTimeoutId = FALSE]]
    /\ Done("long", p, NoData, "closed", <<>>)
    /\ UNCHANGED <<CUR_PEER_CNT, LOBBIES_LIST, lobbies, immediates, timeouts>>

\* Lobby.lobbyTimeoutId, after 10 min
LobbyTimeout(L) ==
    /\ Idle
    /\ "reap" \in clients.timers
    /\ L \in 1..Len(lobbies)
    /\ lobbies[L].lobbyTimeoutId
    /\ IF lobbies[L].peerList # <<>>
       THEN \* the callback reads `host`, which no scope defines: ReferenceError
            Crash("reap", 0, [lobby |-> L])
       ELSE /\ lobbies' = [lobbies EXCEPT ![L].lobbyTimeoutId = FALSE,
                                          ![L].queueIntervalId = FALSE]
            /\ LOBBIES_LIST' = FilterLobbiesBlock(LOBBIES_LIST, lobbies[L].lobbyCode)
            /\ Done("reap", 0, [lobby |-> L], "ok", <<>>)
            /\ UNCHANGED <<CUR_PEER_CNT, peers, immediates, timeouts>>

\* Lobby.queueIntervalId, every 10 s
QueueInterval(L) ==
    /\ Idle
    /\ "queue" \in clients.timers
    /\ L \in 1..Len(lobbies)
    /\ lobbies[L].queueIntervalId
    /\ LET l == lobbies[L]
           host == FindHost(peers, l.peerList)
       IN IF ~(l.maxPeers = Len(l.peerList) /\ l.isActive)
          THEN /\ Done("tick", 0, [lobby |-> L], "idle", <<>>)
               /\ UNCHANGED <<CUR_PEER_CNT, LOBBIES_LIST, lobbies, peers, immediates,
                              timeouts>>
          ELSE IF host = 0
          THEN Crash("tick", 0, [lobby |-> L])
          ELSE /\ Done("tick", host, [lobby |-> L], "probed",
                       <<Msg(host, PROTO.READY, [hasData |-> TRUE, id |-> 0])>>)
               /\ UNCHANGED <<CUR_PEER_CNT, LOBBIES_LIST, lobbies, peers, immediates,
                              timeouts>>

\* a User object whose socket is closed and that no peer list and no queued
\* callback refers to is unreachable: the model forgets its fields
Referenced(q) ==
    \/ \E L \in 1..Len(lobbies) : q \in SeqToSet(lobbies[L].peerList)
    \/ \E i \in 1..Len(immediates) : q \in {immediates[i].to, immediates[i].about}
    \/ \E t \in timeouts : q \in {t.to, t.host}

Collected == [q \in Sockets |->
    IF peers[q].sock = "closed" /\ ~Referenced(q)
    THEN [NoPeer EXCEPT !.sock = "closed"] ELSE peers[q]]

\* the callback has returned: the event loop is free again
Return ==
    /\ ~crashed
    /\ ev # Quiet
    /\ ev' = Quiet
    /\ out' = <<>>
    /\ peers' = Collected
    /\ UNCHANGED <<CUR_PEER_CNT, LOBBIES_LIST, lobbies, immediates, timeouts, crashed,
                   clients>>

\* one event of the event loop for clients that connect, identify themselves
\* or send frames no branch accepts, and leave
HandshakeNext ==
    \/ \E p \in Sockets, v \in PeerDraws : Connection(p, v)
    \/ \E p \in Sockets : OnClose(p)
    \/ \E p \in Sockets, call \in ReadsData : HandleNullData(p, call)
    \/ \E p \in Sockets, g \in {"", "chess"} : HandleID(p, [game |-> g])
    \/ \E p \in Sockets, call \in UnknownCalls : HandleUnknown(p, call)
    \/ \E p \in Sockets, c \in FractionCalls, data \in HostRequests(clients),
          u \in clients.draws :
          HandleFractionCall(p, c, data, u)
    \/ \E p \in Sockets : HandleNullFrame(p)
    \/ \E p \in Sockets : EarlyTimeout(p)
    \/ \E p \in Sockets : LongTimeout(p)
    \/ Return

\* one event of the event loop
Next ==
    \/ HandshakeNext
    \/ \E p \in Sockets, data \in HostRequests(clients), u \in clients.draws :
          HandleHOST(p, data, u)
    \/ \E p \in Sockets, data \in JoinRequests : HandleJOIN(p, data)
    \/ \E p \in Sockets, data \in QueueRequests(clients), u \in clients.draws :
          HandleQUEUE(p, data, u)
    \/ \E p \in Sockets, data \in ViewRequests : HandleVIEW(p, data)
    \/ \E p \in Sockets, id \in IdInputs : HandleKICK(p, [id |-> id])
    \/ \E p \in Sockets, call \in {PROTO.OFFER, PROTO.ANSWER, PROTO.CANDIDATE},
          data \in RelayRequests : HandleRelay(p, call, data)
    \/ \E p \in Sockets, d \in BOOLEAN, id \in IdInputs :
          HandleREADY(p, d, [id |-> IF d THEN id ELSE 0])
    \/ \E p \in Sockets : HandleSTART(p)
    \/ RunImmediate
    \/ \E t \in timeouts : RunTimeout(t)
    \/ \E L \in 1..MaxLobbies : LobbyTimeout(L)
    \/ \E L \in 1..MaxLobbies : QueueInterval(L)

Spec == Init /\ [][Next]_vars

\* the clients whose early and long timers run out
InitSilent == Init /\ "early" \in clients.timers

\* the event loop's scheduling: a callback that runs returns, a timer that is
\* due fires however many other events arrive, and a socket that is closing
\* delivers its 'close' event
FairSpec ==
    /\ InitSilent
    /\ [][HandshakeNext]_vars
    /\ WF_vars(Return)
    /\ \A p \in Sockets : SF_vars(EarlyTimeout(p))
    /\ \A p \in Sockets : SF_vars(peers[p].sock = "closing" /\ OnClose(p))

\* ------------------------------------------------------------------------
\* Properties
\* ------------------------------------------------------------------------

\* the lobbies of the directory, and the transports whose peer is connected
Directory == SeqToSet(LOBBIES_LIST)
Connected == {p \in Sockets : peers[p].sock \in {"open", "closing"}}

\* the places of q in the peer list of L
Places(q, L) == {i \in 1..Len(lobbies[L].peerList) : lobbies[L].peerList[i] = q}

\* C1: every peer appears in the peer list of at most one lobby, and at most
\* once in that list, whatever requests it has sent.
C1_PeerInAtMostOneLobby ==
    \A q \in Sockets :
        /\ \A L \in Directory : Cardinality(Places(q, L)) <= 1
        /\ \A L1, L2 \in Directory : Places(q, L1) # {} /\ Places(q, L2) # {} => L1 = L2

\* C2: every lobby in the directory has exactly one peer with isHost = true; it
\* is the first of the peer list and its lobbyId is 1.
C2_OneHostFirst ==
    \A L \in Directory :
        LET list == lobbies[L].peerList
        IN /\ Cardinality({i \in 1..Len(list) : peers[list[i]].isHost}) = 1
           /\ peers[list[1]].isHost
           /\ peers[list[1]].lobbyId = 1

\* C3: a lobby never holds more peers than its maxPeers, for every maxPeers
\* HOST or QUEUE accepts.
C3_SizeWithinMaxPeers ==
    \A L \in Directory : Len(lobbies[L].peerList) <= lobbies[L].maxPeers

\* C4: two different peers of one lobby never have the same lobbyId, whatever
\* ids the server minted for them.
C4_LobbyIdsDistinct ==
    \A L \in Directory :
        LET list == lobbies[L].peerList
        IN \A i, j \in 1..Len(list) :
               list[i] # list[j] => peers[list[i]].lobbyId # peers[list[j]].lobbyId

\* C5: no two lobbies of the directory have the same lobby code.
C5_CodesUnique ==
    \A i, j \in 1..Len(LOBBIES_LIST) :
        i # j => lobbies[LOBBIES_LIST[i]].lobbyCode # lobbies[LOBBIES_LIST[j]].lobbyCode

\* C6: no lobby of the directory has an empty peer list.
C6_NoEmptyLobbyListed ==
    \A L \in Directory : lobbies[L].peerList # <<>>

\* the transports that are live: connected, and not turned away at the cap
Rejected(p) == peers[p].sock = "closing" /\ peers[p].closeCode = TOO_MANY_PEERS
Live == {p \in Connected : ~Rejected(p)}

\* C7: after every connection and every close event the peer count is the
\* number of live transports.
C7_CountIsLiveTransports ==
    ev.op \in {"connection", "close"} => CUR_PEER_CNT = Cardinality(Live)

\* C8: a transport that opens while the peer count is MAX_CONNS gets
\* ERR{TOO_MANY_PEERS} and the close code TOO_MANY_PEERS, and is not admitted:
\* no peer is minted for it, no ID is sent to it, the count stays within
\* MAX_CONNS.
C8_OverCapNotAdmitted ==
    (ev.op = "connection" /\ ev.res = "rejected") =>
        /\ out = <<Msg(ev.p, PROTO.ERR, ErrData(TOO_MANY_PEERS))>>
        /\ Rejected(ev.p)
        /\ peers[ev.p].id = NoPeer.id
        /\ ~peers[ev.p].earlyTimeoutId
        /\ ~peers[ev.p].longTimeoutId
        /\ CUR_PEER_CNT <= MAX_CONNS

\* C9: the lobby a connected peer refers to is none or a lobby of the
\* directory.
C9_LobbyRefInDirectory ==
    \A p \in Connected : peers[p].lobby = NoLobby \/ peers[p].lobby \in Directory

\* C10: a JOIN that carries a game and a lobby code enters a lobby only if the
\* directory holds a lobby with that code that is active and not full;
\* otherwise the sender gets ERR{LOBBY_NOT_FOUND}, stays connected, and no
\* peer and no peer list changes.
C10_JoinOnlyOpenLobby ==
    [][(ev'.op = "JOIN" /\ ev'.arg.game # "" /\ ev'.arg.lobbyCode # <<>>) =>
          LET hit == \E i \in 1..Len(LOBBIES_LIST) :
                         LET l == lobbies[LOBBIES_LIST[i]]
                         IN /\ l.lobbyCode = ev'.arg.lobbyCode
                            /\ l.isActive
                            /\ Len(l.peerList) < l.maxPeers
              entered == \/ \E i \in 1..Len(out') : out'[i].call = PROTO.JOIN
                         \/ peers'[ev'.p].lobby # peers[ev'.p].lobby
                         \/ lobbies' # lobbies
          IN /\ entered => hit
             /\ ~hit => /\ out' = <<Msg(ev'.p, PROTO.ERR, ErrData(LOBBY_NOT_FOUND))>>
                        /\ peers'[ev'.p].sock = "open"
                        /\ peers' = peers
                        /\ lobbies' = lobbies
                        /\ LOBBIES_LIST' = LOBBIES_LIST]_vars

\* C10's case: a JOIN names the code of a lobby of the directory that is
\* sealed or full, and is answered with ERR{LOBBY_NOT_FOUND}
C10_SealedOrFullRefused ==
    /\ ev.op = "JOIN"
    /\ out = <<Msg(ev.p, PROTO.ERR, ErrData(LOBBY_NOT_FOUND))>>
    /\ \E L \in Directory :
          /\ lobbies[L].lobbyCode = ev.arg.lobbyCode
          /\ ~lobbies[L].isActive
    /\ \E L \in Directory :
          /\ lobbies[L].lobbyCode = ev.arg.lobbyCode
          /\ Len(lobbies[L].peerList) = lobbies[L].maxPeers

\* the members of the lobby L other than p
Others(L, p) == SeqToSet(lobbies[L].peerList) \ {p}

\* how many callbacks equal to t wait in the setImmediate queue
Queued(t) == Cardinality({i \in 1..Len(immediates) : immediates[i] = t})

\* C11: on a successful JOIN the first message to the joiner is the JOIN reply,
\* and exactly one exchange of ADD (the member gets the joiner's lobbyId, the
\* joiner the member's) is queued behind it for each other member of the lobby.
C11_JoinReplyThenAdds ==
    (ev.op = "JOIN" /\ ev.res = "ok") =>
        /\ out # <<>>
        /\ out[1].to = ev.p
        /\ out[1].call = PROTO.JOIN
        /\ \A q \in Others(peers[ev.p].lobby, ev.p) : Queued(AddTask(q, ev.p)) = 1

\* C12: a lobby its host has sealed with READY or START stays sealed (isActive
\* never returns to true), and every later JOIN naming its code is answered
\* with ERR{LOBBY_NOT_FOUND}.
C12_SealedForGood ==
    [][/\ \A L \in 1..Len(lobbies) :
              (~lobbies[L].isActive /\ L <= Len(lobbies')) => ~lobbies'[L].isActive
       /\ (/\ ev'.op = "JOIN"
           /\ ev'.arg.game # ""
           /\ \E L \in Directory : /\ ~lobbies[L].isActive
                                   /\ lobbies[L].lobbyCode = ev'.arg.lobbyCode)
          => out' = <<Msg(ev'.p, PROTO.ERR, ErrData(LOBBY_NOT_FOUND))>>]_vars

\* C13: when a host sends START the handler completes, every member of its
\* lobby (the host included) is sent an empty START and has its close with
\* START_GAME scheduled behind it; and when the host of a sealed lobby has
\* closed, the lobby is no longer in the directory.
C13_StartReachesEveryMember ==
    [][/\ (ev'.op = "START" /\ peers[ev'.p].isHost) =>
              /\ ~crashed'
              /\ \A L \in 1..Len(lobbies) :
                     ev'.p \in SeqToSet(lobbies[L].peerList) =>
                         \A q \in SeqToSet(lobbies[L].peerList) :
                             /\ \E i \in 1..Len(out') : out'[i] = Msg(q, PROTO.START, NoData)
                             /\ CloseTask(q) \in timeouts'
       /\ (/\ ev'.op = "close"
           /\ peers[ev'.p].isHost
           /\ peers[ev'.p].lobby # NoLobby
           /\ ~crashed')
          => peers[ev'.p].lobby \notin SeqToSet(LOBBIES_LIST')]_vars

C15_HostCloseTearsDown ==
    [][(/\ ev'.op = "close"
        /\ peers[ev'.p].isHost
        /\ peers[ev'.p].lobby # NoLobby
        /\ lobbies[peers[ev'.p].lobby].isActive) =>
          LET L == peers[ev'.p].lobby
              members == SeqToSet(lobbies[L].peerList)
          IN /\ \A q \in members : peers'[q].lobby = NoLobby
             /\ lobbies'[L].peerList = <<>>
             /\ L \notin SeqToSet(LOBBIES_LIST')
             /\ ~lobbies'[L].queueIntervalId
             /\ ~lobbies'[L].lobbyTimeoutId
             /\ \A q \in members :
                    \E i \in 1..Len(immediates') : immediates'[i] = KickTask(q, q, FALSE)]_vars

\* C16: when a member of an active lobby that is not its host (the host is
\* another member) disconnects, it leaves the lobby's peer list, its lobby
\* reference is cleared, a
\* KICK{id: its lobbyId, lobbyAlive: true} is queued for each remaining member,
\* and the lobby stays as it was in the directory.
C16_MemberCloseLeavesLobby ==
    [][(/\ ev'.op = "close"
        /\ ~peers[ev'.p].isHost
        /\ peers[ev'.p].lobby # NoLobby
        /\ lobbies[peers[ev'.p].lobby].isActive
        /\ Cardinality(Places(ev'.p, peers[ev'.p].lobby)) = 1
        /\ \E q \in Others(peers[ev'.p].lobby, ev'.p) : peers[q].isHost) =>
          LET L == peers[ev'.p].lobby
          IN /\ ev'.p \notin SeqToSet(lobbies'[L].peerList)
             /\ peers'[ev'.p].lobby = NoLobby
             /\ \A q \in Others(L, ev'.p) :
                    \E i \in 1..Len(immediates') : immediates'[i] = KickTask(q, ev'.p, TRUE)
             /\ LOBBIES_LIST' = LOBBIES_LIST]_vars

\* the member KICK{id} names in the lobby L: some member's lobbyId is id
Names(L, id) == \E q \in SeqToSet(lobbies[L].peerList) : peers[q].lobbyId = id

\* C17: when a host sends KICK with its own lobbyId the handler completes, the
\* lobby leaves the directory (which is one lobby shorter), every member's lobby
\* reference is cleared and a KICK{id: host lobbyId, lobbyAlive: false} is
\* queued for every member.
C17_HostKicksSelf ==
    [][(/\ ev'.op = "KICK"
        /\ peers[ev'.p].isHost
        /\ peers[ev'.p].lobby # NoLobby
        /\ ev'.arg.id = peers[ev'.p].lobbyId) =>
          LET L == peers[ev'.p].lobby
              members == SeqToSet(lobbies[L].peerList)
          IN /\ ~crashed'
             /\ L \notin SeqToSet(LOBBIES_LIST')
             /\ Len(LOBBIES_LIST') + 1 = Len(LOBBIES_LIST)
             /\ \A q \in members : peers'[q].lobby = NoLobby]_vars

\* C18: when a host sends KICK with the lobbyId of another member of its lobby,
\* the handler completes, that member leaves the peer list and loses its lobby
\* reference, and the lobby stays in the directory.
C18_HostKicksMember ==
    [][(/\ ev'.op = "KICK"
        /\ peers[ev'.p].isHost
        /\ peers[ev'.p].lobby # NoLobby
        /\ ev'.arg.id # peers[ev'.p].lobbyId
        /\ Names(peers[ev'.p].lobby, ev'.arg.id)) =>
          LET L == peers[ev'.p].lobby
              kicked == {q \in Others(L, ev'.p) : peers[q].lobbyId = ev'.arg.id}
          IN /\ ~crashed'
             /\ \A q \in kicked : /\ q \notin SeqToSet(lobbies'[L].peerList)
                                  /\ peers'[q].lobby = NoLobby
             /\ LOBBIES_LIST' = LOBBIES_LIST]_vars

\* C19: a KICK whose id names no member of the sender's lobby is a no-op for
\* every sender: the handler completes, no KICK is sent or queued, and no peer
\* list and not the directory changes.
C19_KickUnknownIdNoOp ==
    [][(/\ ev'.op = "KICK"
        /\ ev'.arg.id # 0
        /\ peers[ev'.p].lobby # NoLobby
        /\ ~Names(peers[ev'.p].lobby, ev'.arg.id)) =>
          /\ ~crashed'
          /\ \A i \in 1..Len(out') : out'[i].call # PROTO.KICK
          /\ immediates' = immediates
          /\ lobbies' = lobbies
          /\ LOBBIES_LIST' = LOBBIES_LIST]_vars

\* C20: when a member that is not the host (the host is another member) sends
\* KICK with its own lobbyId, it leaves the peer list and loses its lobby
\* reference, a KICK{id: its lobbyId, lobbyAlive: true} is queued for every
\* remaining member, and the lobby stays in the directory with its host.
C20_MemberKicksSelf ==
    [][(/\ ev'.op = "KICK"
        /\ ~peers[ev'.p].isHost
        /\ peers[ev'.p].lobby # NoLobby
        /\ ev'.arg.id = peers[ev'.p].lobbyId
        /\ Cardinality(Places(ev'.p, peers[ev'.p].lobby)) = 1
        /\ \E q \in Others(peers[ev'.p].lobby, ev'.p) : peers[q].isHost) =>
          LET L == peers[ev'.p].lobby
          IN /\ ~crashed'
             /\ ev'.p \notin SeqToSet(lobbies'[L].peerList)
             /\ peers'[ev'.p].lobby = NoLobby
             /\ \A q \in Others(L, ev'.p) :
                    /\ q \in SeqToSet(lobbies'[L].peerList)
                    /\ \E i \in 1..Len(immediates') :
                           immediates'[i] = KickTask(q, ev'.p, TRUE)
             /\ LOBBIES_LIST' = LOBBIES_LIST]_vars

\* C21: when the reap timer of a lobby of the directory elapses, the callback
\* completes, every member's lobby reference is cleared, the peer list is
\* emptied, the lobby leaves the directory, and each former member is sent
\* KICK{lobbyAlive: false}.
C21_ReapTearsDown ==
    [][(ev'.op = "reap" /\ ev'.arg.lobby \in Directory) =>
          LET L == ev'.arg.lobby
              members == SeqToSet(lobbies[L].peerList)
          IN /\ ~crashed'
             /\ \A q \in members : peers'[q].lobby = NoLobby
             /\ lobbies'[L].peerList = <<>>
             /\ L \notin SeqToSet(LOBBIES_LIST')
             /\ \A q \in members :
                    peers[q].sock = "open" =>
                        \E i \in 1..Len(out') : /\ out'[i].to = q
                                                /\ out'[i].call = PROTO.KICK
                                                /\ ~out'[i].data.lobbyAlive]_vars

\* a lobby made by HOST that was torn down: its members were detached and it
\* is no longer in the directory
Removed(L) ==
    /\ lobbies[L].lobbyType # LOBBY_TYPE.QUEUE
    /\ lobbies[L].peerList = <<>>
    /\ L \notin Directory

\* C22: a timer whose subject is gone has no effect: the reap timeout and the
\* queue interval of a lobby that was removed from the directory change
\* neither the directory nor any peer and send nothing, and the early and long
\* timeouts of a peer whose transport has closed change nothing either.
C22_DeadTimersIdle ==
    [][/\ (ev'.op \in {"reap", "tick"} /\ Removed(ev'.arg.lobby)) =>
              /\ ~crashed'
              /\ out' = <<>>
              /\ LOBBIES_LIST' = LOBBIES_LIST
              /\ peers' = peers
       /\ (ev'.op \in {"early", "long"} /\ peers[ev'.p].sock = "closed") =>
              /\ ~crashed'
              /\ out' = <<>>
              /\ LOBBIES_LIST' = LOBBIES_LIST
              /\ lobbies' = lobbies
              /\ peers'[ev'.p].sock = "closed"]_vars

\* the members of the sender's lobby, other than the sender, that a relay
\* request names
Named(p, toId) ==
    IF peers[p].lobby = NoLobby \/ toId.k # "num" THEN {}
    ELSE {q \in SeqToSet(lobbies[peers[p].lobby].peerList) \ {p} :
              /\ peers[q].lobbyId = toId.v
              /\ peers[q].sock = "open"}

\* C23: an OFFER, ANSWER or CANDIDATE of a lobby member that names another
\* member of its lobby is delivered to that member only, with the payload
\* unchanged and fromId the sender's lobbyId, and changes no state.
C23_RelayToNamedMember ==
    [][(ev'.op = "RELAY" /\ Named(ev'.p, ev'.arg.data.toId) # {}) =>
          /\ ~crashed'
          /\ \E q \in Named(ev'.p, ev'.arg.data.toId) :
                 out' = <<Msg(q, ev'.arg.call,
                              [payload |-> ev'.arg.data.payload,
                               fromId |-> peers[ev'.p].lobbyId])>>
          /\ peers' = peers
          /\ lobbies' = lobbies
          /\ LOBBIES_LIST' = LOBBIES_LIST]_vars

\* C24: an OFFER, ANSWER or CANDIDATE without toId, or whose toId is the
\* lobbyId of no member of the sender's lobby (a sender in no lobby included),
\* is answered with ERR{BAD_MESSAGE} to the sender alone; the handler completes
\* and no state changes.
C24_RelayUnknownTargetIsError ==
    [][(/\ ev'.op = "RELAY"
        /\ \/ ev'.arg.data.toId.k # "num"
           \/ peers[ev'.p].lobby = NoLobby
           \/ \A q \in SeqToSet(lobbies[peers[ev'.p].lobby].peerList) :
                  peers[q].lobbyId # ev'.arg.data.toId.v) =>
          /\ ~crashed'
          /\ out' = <<Msg(ev'.p, PROTO.ERR, ErrData(BAD_MESSAGE))>>
          /\ peers' = peers
          /\ lobbies' = lobbies
          /\ LOBBIES_LIST' = LOBBIES_LIST]_vars

\* C25: a HOST request without a game, with a maxPeers that is not a number,
\* or with a maxPeers below 2 is answered with ERR{BAD_HOST} and changes
\* neither the peer nor the lobbies nor the directory.
C25_BadHostRejected ==
    [][(/\ ev'.op = "HOST"
        /\ \/ ev'.arg.game = ""
           \/ ev'.arg.maxPeers.k # "num"
           \/ ev'.arg.maxPeers.v < 2) =>
          /\ ~crashed'
          /\ out' = <<Msg(ev'.p, PROTO.ERR, ErrData(BAD_HOST))>>
          /\ peers' = peers
          /\ lobbies' = lobbies
          /\ LOBBIES_LIST' = LOBBIES_LIST]_vars

\* the isMesh a request asks for: its own value, true when the field is absent
AskedMesh(x) == IF x.k = "bool" THEN x.b ELSE TRUE

\* C26: the lobby a HOST or QUEUE request creates stores the isMesh value the
\* client supplied (true only when the field is absent), and the reply carries
\* that same value.
C26_IsMeshPassedThrough ==
    [][(ev'.op \in {"HOST", "QUEUE"} /\ ev'.res \in {"ok", "created"}) =>
          /\ ~crashed'
          /\ Len(lobbies') = Len(lobbies) + 1
          /\ lobbies'[Len(lobbies')].isMesh = AskedMesh(ev'.arg.isMesh)
          /\ Len(out') = 1
          /\ out'[1].data.isMesh = AskedMesh(ev'.arg.isMesh)]_vars

\* the queue lobbies a QUEUE request matches: same game, maxPeers and tags,
\* active and not full, and the sender is not yet one of their members
Matching(p, data) ==
    {L \in 1..Len(lobbies) :
        /\ lobbies[L].lobbyType = LOBBY_TYPE.QUEUE
        /\ lobbies[L].game = data.game
        /\ data.maxPeers.k = "num"
        /\ lobbies[L].maxPeers = data.maxPeers.v
        /\ lobbies[L].tags = OrNull(data.tags)
        /\ lobbies[L].isActive
        /\ Len(lobbies[L].peerList) < lobbies[L].maxPeers
        /\ p \notin SeqToSet(lobbies[L].peerList)}

\* C27: when two or more peers have each made a matching queue lobby, a
\* further QUEUE joins the first of these lobbies as a non-host: the sender is
\* appended to its peer list with lobbyId its id, its lobby reference is set,
\* it receives QUEUE{isHost: false}, and an ADD exchange with each member is
\* queued.
C27_QueueJoinsFirstMatch ==
    [][(/\ ev'.op = "QUEUE"
        /\ Cardinality({lobbies[L].peerList[1] : L \in Matching(ev'.p, ev'.arg)}) >= 2) =>
          LET q == ev'.p
              first == CHOOSE L \in Matching(q, ev'.arg) :
                           \A K \in Matching(q, ev'.arg) : L <= K
          IN /\ ~crashed'
             /\ lobbies' = [lobbies EXCEPT
                               ![first].peerList = Append(lobbies[first].peerList, q)]
             /\ peers' = [peers EXCEPT ![q].lobbyId = peers[q].id,
                                       ![q].isHost = FALSE,
                                       ![q].lobby = first]
             /\ out' = <<Msg(q, PROTO.QUEUE,
                             [id |-> peers[q].id, isMesh |-> lobbies[first].isMesh,
                              lobbyCode |-> lobbies[first].lobbyCode,
                              isHost |-> FALSE])>>
             /\ \A m \in SeqToSet(lobbies[first].peerList) :
                    Queued(AddTask(m, q))]_vars

\* the directory's lobbies a listing for game shows, in directory order
Shown(game) ==
    SelectSeq(LOBBIES_LIST,
              LAMBDA L : /\ lobbies[L].game = game
                         /\ lobbies[L].lobbyType = LOBBY_TYPE.PUBLIC
                         /\ lobbies[L].lobbyType \notin {LOBBY_TYPE.PRIVATE, LOBBY_TYPE.QUEUE}
                         /\ lobbies[L].isActive
                         /\ Len(lobbies[L].peerList) < lobbies[L].maxPeers)

\* C28: a VIEW with a game and no lobbyCode answers the sender with exactly
\* the directory's lobbies of that game that are PUBLIC, active and not full,
\* and changes no state (so a second VIEW right after it lists the same).
C28_ViewListsOpenPublicLobbies ==
    [][(ev'.op = "VIEW" /\ ev'.arg.game # "" /\ ev'.arg.lobbyCode = <<>>) =>
          /\ ~crashed'
          /\ Len(out') = 1
          /\ out'[1].to = ev'.p
          /\ out'[1].call = PROTO.VIEW
          /\ LET list == out'[1].data.lobbyList
                 shown == Shown(ev'.arg.game)
             IN /\ Len(list) = Len(shown)
                /\ \A i \in 1..Len(list) : list[i] = LobbyDetails(lobbies[shown[i]])
          /\ peers' = peers
          /\ lobbies' = lobbies
          /\ LOBBIES_LIST' = LOBBIES_LIST
          /\ CUR_PEER_CNT' = CUR_PEER_CNT
          /\ immediates' = immediates
          /\ timeouts' = timeouts]_vars

\* a listing that shows one lobby of the directory and leaves out another
C28_ListingLeavesOneOut ==
    /\ ev.op = "VIEW"
    /\ ev.arg.game # ""
    /\ ev.arg.lobbyCode = <<>>
    /\ Len(out) = 1
    /\ Len(out[1].data.lobbyList) = 1
    /\ Len(LOBBIES_LIST) = 2

\* C29: a frame that does not parse, a frame whose call is not an integer, a
\* call outside 0..12 and a call the server does not accept from clients are
\* each answered with ERR{BAD_PROTO} to the sender; the connection stays open
\* and no peer, lobby or directory state changes.
C29_MalformedIsBadProto ==
    [][(ev'.op \in {"UNKNOWN", "FRACTION"}) =>
          /\ ~crashed'
          /\ out' = <<Msg(ev'.p, PROTO.ERR, ErrData(BAD_PROTO))>>
          /\ peers' = peers
          /\ lobbies' = lobbies
          /\ LOBBIES_LIST' = LOBBIES_LIST
          /\ CUR_PEER_CNT' = CUR_PEER_CNT]_vars

\* C30: when the early timer of an open peer without a game fires, the peer is
\* closed with IDLE_SOCKET_CONN; the early timer leaves a peer with a game as
\* it is; and under fair scheduling a connected peer stays without a game only
\* until it is closed and its 'close' handler has run.
C30_EarlyTimerClosesSilentPeer ==
    /\ [][(ev'.op = "early") =>
             /\ ~crashed'
             /\ (peers[ev'.p].sock = "open" /\ peers[ev'.p].game = JsNull) =>
                    /\ peers'[ev'.p].sock = "closing"
                    /\ peers'[ev'.p].closeCode = IDLE_SOCKET_CONN
             /\ peers[ev'.p].game # JsNull =>
                    /\ peers'[ev'.p].sock = peers[ev'.p].sock
                    /\ peers'[ev'.p].closeCode = peers[ev'.p].closeCode]_vars
    /\ \A p \in Sockets :
           (peers[p].sock \in {"open", "closing"} /\ peers[p].game = JsNull)
               ~> (peers[p].sock = "closed" \/ peers[p].game # JsNull)

\* the 'close' handler has run for a peer the early timer closed
C30_SilentPeerTornDown ==
    /\ ev.op = "close"
    /\ peers[ev.p].sock = "closed"
    /\ peers[ev.p].game = JsNull
    /\ peers[ev.p].closeCode = IDLE_SOCKET_CONN
    /\ ~peers[ev.p].earlyTimeoutId

\* the lobby of the directory that the step just taken tears down by the
\* disconnect of its host, if any
TornDown ==
    IF ev'.op = "close" /\ peers[ev'.p].isHost /\ peers[ev'.p].lobby \in Directory
    THEN {peers[ev'.p].lobby}
    ELSE {}

\* C31: tearing down one lobby removes only that lobby from the directory,
\* here for the teardown by host disconnect: every other lobby of the
\* directory, of which the host that left is no member, is still in the
\* directory afterwards with the same peer list and the same isActive flag.
C31_TeardownSparesOtherLobbies ==
    [][\A T \in TornDown :
          \A K \in Directory \ {T} :
              ev'.p \notin SeqToSet(lobbies[K].peerList) =>
                  /\ ~crashed'
                  /\ K \in SeqToSet(LOBBIES_LIST')
                  /\ lobbies'[K].peerList = lobbies[K].peerList
                  /\ lobbies'[K].isActive = lobbies[K].isActive]_vars

====
